---- MODULE Spec2Model ----
(***************************************************************************)
(* Model of the credential pool gateway of CosmoQuest,                     *)
(* src/groq_api_manager.py (class GroqAPIManager).                         *)
(*                                                                         *)
(* The store (api_keys), the aggregate counters (stats) and the clock are  *)
(* shared by the callers of make_request(); each caller has its own        *)
(* program counter and loop variables.  A caller's step runs make_request  *)
(* up to the next point where it blocks (the POST, a time.sleep, the       *)
(* return), so that other callers run while a POST is outstanding or a     *)
(* caller sleeps, as the threads of the web application do.                *)
(***************************************************************************)
EXTENDS Integers, Sequences, FiniteSets, TLC

VARIABLES
    env,                        \* os.environ restricted to key_names: slot -> value ("" = unset)
    api_keys,                   \* self.api_keys: sequence of APIKeyInfo records
    stats,                      \* self.stats
    constructed,                \* "no" before __init__, "yes" after it, "failed" when it raised
    use_quest_based_rotation,   \* self.use_quest_based_rotation
    upstream,                   \* slot -> the behaviour of the provider for that credential
    now,                        \* datetime.now(), in seconds
    pc,                         \* caller -> position in make_request
    max_retries,                \* caller -> local max_retries
    attempt,                    \* caller -> local attempt
    key_info,                   \* caller -> index in api_keys of the record in use (NONE = None)
    sticky,                     \* caller -> TRUE while the call in flight is the quest-specific one
    result,                     \* caller -> what make_request returned
    calls,                      \* caller -> outbound calls made by the current make_request
    slept,                      \* caller -> seconds of time.sleep taken by the current make_request
    reg,                        \* caller -> the value it has read of the field it is about to write,
                                \* or <<now, header>> as its response handler holds them
    reset_cooling               \* history: the records the last step's reset_key_status took out of
                                \* an unexpired cooldown (indices in api_keys)

vars == <<env, api_keys, stats, constructed, use_quest_based_rotation, upstream, now,
          pc, max_retries, attempt, key_info, sticky, result, calls, slept, reg,
          reset_cooling>>

storeVars == <<env, api_keys, stats, constructed, use_quest_based_rotation, upstream>>
callerVars == <<pc, max_retries, attempt, key_info, sticky, result, calls, slept, reg>>

(***************************************************************************)
(* Bounds of the model.                                                    *)
(***************************************************************************)
MaxKeys == 2            \* SpecSeq: configured slots
MaxCalls == 3           \* SpecSeq: outbound calls in a behaviour (stats["total_requests"])
MaxRequests == 2        \* SpecSeq: make_request calls in a behaviour
AnyKeys == 2            \* SpecAny: configured slots
AnyCalls == 3           \* SpecAny: outbound calls in a behaviour
AnyRequests == 1        \* SpecAny: make_request calls in a behaviour
NumCallers == 2         \* Spec: concurrent callers of make_request
ConcKeys == 1           \* Spec: configured slots
ConcCalls == 4          \* Spec: outbound calls in a behaviour
ConcRequests == 2       \* Spec: make_request calls in a behaviour
LoadCalls == 5          \* SpecLoaded: outbound calls in a behaviour
LoadRequests == 2       \* SpecLoaded: make_request calls in a behaviour
RepKeys == 2            \* SpecRepeat: configured slots
RepCalls == 3           \* SpecRepeat: outbound calls
RepRequests == 2        \* SpecRepeat: calls of make_request
RecCalls == 4           \* SpecRecover: outbound calls
RecRequests == 4        \* SpecRecover: calls of make_request
MaxTime == 60           \* the clock stops advancing here
ClockStep == 30         \* granularity of the clock

(***************************************************************************)
(* Program constants.                                                      *)
(***************************************************************************)
NONE == -1              \* Python None for a datetime or an index

key_names == <<"GROQ_API_KEY", "GROQ_API_KEY2", "GROQ_API_KEY3", "GROQ_API_KEY4">>

default_max_retries == 3
base_retry_delay == 1
rate_limit_cooldown == 60
error_cooldown == 30
max_errors_before_cooldown == 3

Callers == 1..NumCallers
Slots == 1..Len(key_names)

Min(S) == CHOOSE x \in S : \A y \in S : x <= y

RECURSIVE Pow2(_)
Pow2(n) == IF n = 0 THEN 1 ELSE 2 * Pow2(n - 1)

(***************************************************************************)
(* APIKeyInfo and _load_api_keys.                                          *)
(***************************************************************************)
APIKeyInfo(key, name) ==
    [key |-> key, name |-> name, status |-> "active",
     last_used |-> NONE, rate_limit_reset |-> NONE, error_count |-> 0,
     total_requests |-> 0, successful_requests |-> 0,
     last_error |-> "None", cooldown_until |-> NONE]

\* A loader that stops at the first unset slot: the variant the slot-order
\* property of construction is tested against.
RECURSIVE load_from_stop(_, _)
load_from_stop(e, i) ==
    IF i > Len(key_names) \/ e[i] = "" THEN <<>>
    ELSE <<APIKeyInfo(e[i], key_names[i])>> \o load_from_stop(e, i + 1)

RECURSIVE load_from(_, _)
load_from(e, i) ==
    IF i > Len(key_names) THEN <<>>
    ELSE (IF e[i] # "" THEN <<APIKeyInfo(e[i], key_names[i])>> ELSE <<>>)
         \o load_from(e, i + 1)

_load_api_keys(e) == load_from(e, 1)

InitStats ==
    [total_requests |-> 0, successful_requests |-> 0, failed_requests |-> 0,
     key_switches |-> 0, rate_limit_hits |-> 0]

(***************************************************************************)
(* _get_next_available_key: the three tiers, each in registration order.   *)
(* The result is the index of the record returned (NONE for None) and the  *)
(* store as the recovery transition left it.                               *)
(***************************************************************************)
ActiveNow(keys, t) ==
    {i \in DOMAIN keys :
        /\ keys[i].status = "active"
        /\ (keys[i].cooldown_until = NONE \/ keys[i].cooldown_until <= t)}

RateLimitPassed(keys, t) ==
    {i \in DOMAIN keys :
        /\ keys[i].status = "rate_limited"
        /\ keys[i].rate_limit_reset # NONE
        /\ keys[i].rate_limit_reset <= t}

CooldownPassed(keys, t) ==
    {i \in DOMAIN keys :
        /\ keys[i].status = "cooling_down"
        /\ keys[i].cooldown_until # NONE
        /\ keys[i].cooldown_until <= t}

\* A selection that only looks for ACTIVE records: the variant the lazy recovery
\* of expired records is tested against.
_get_next_available_key_active_only(keys, t) ==
    IF ActiveNow(keys, t) # {}
    THEN [idx |-> Min(ActiveNow(keys, t)), keys |-> keys]
    ELSE [idx |-> NONE, keys |-> keys]

_get_next_available_key(keys, t) ==
    IF ActiveNow(keys, t) # {}
    THEN [idx |-> Min(ActiveNow(keys, t)), keys |-> keys]
    ELSE IF RateLimitPassed(keys, t) # {}
    THEN LET i == Min(RateLimitPassed(keys, t))
         IN  [idx |-> i,
              keys |-> [keys EXCEPT ![i].status = "active",
                                    ![i].rate_limit_reset = NONE]]
    ELSE IF CooldownPassed(keys, t) # {}
    THEN LET i == Min(CooldownPassed(keys, t))
         IN  [idx |-> i,
              keys |-> [keys EXCEPT ![i].status = "active",
                                    ![i].cooldown_until = NONE,
                                    ![i].error_count = 0]]
    ELSE [idx |-> NONE, keys |-> keys]

(***************************************************************************)
(* get_key_for_quest: the record at (quest_num - 1) % len when it is       *)
(* available, else whatever _get_next_available_key returns.               *)
(***************************************************************************)
AssignedAvailable(ki, t) ==
    /\ ki.status = "active"
    /\ (ki.cooldown_until = NONE \/ ki.cooldown_until <= t)
    /\ (ki.rate_limit_reset = NONE \/ ki.rate_limit_reset <= t)

\* The record at quest_num % len: the variant the assignment of quests to
\* records is tested against.
get_key_for_quest_by_tag(keys, q, t) ==
    LET key_index == (q % Len(keys)) + 1
    IN  IF AssignedAvailable(keys[key_index], t)
        THEN [idx |-> key_index, keys |-> keys]
        ELSE _get_next_available_key(keys, t)

get_key_for_quest(keys, q, t) ==
    LET key_index == ((q - 1) % Len(keys)) + 1
    IN  IF AssignedAvailable(keys[key_index], t)
        THEN [idx |-> key_index, keys |-> keys]
        ELSE _get_next_available_key(keys, t)

(***************************************************************************)
(* The provider's answers.  kind: "ok" is HTTP 200 with a body whose       *)
(* content parses into a dict; "not_dict" is HTTP 200 with content that is *)
(* valid JSON but no dict; "malformed" is HTTP 200 with a body that raises *)
(* in parsing; "rate_limit" is HTTP 429; "http_error" is any other status; *)
(* "network" is a requests.exceptions.RequestException.  The header        *)
(* x-ratelimit-reset-requests of a 429 is absent, not an integer,          *)
(* an integer datetime.fromtimestamp accepts (hint_val), or one it raises  *)
(* OverflowError on.                                                       *)
(***************************************************************************)
HintValues == {0, 90}

RateLimitResponses ==
    {[kind |-> "rate_limit", hint |-> h, hint_val |-> 0] :
        h \in {"absent", "unparseable", "overflow"}}
    \cup {[kind |-> "rate_limit", hint |-> "timestamp", hint_val |-> v] : v \in HintValues}

Plain(kind) == [kind |-> kind, hint |-> "absent", hint_val |-> 0]

TransientResponses == {Plain("http_error"), Plain("network"), Plain("malformed"), Plain("not_dict")}

ResponsesOf(profile) ==
    CASE profile = "success" -> {Plain("ok")}
      [] profile = "rate_limited" -> RateLimitResponses
      [] profile = "transient" -> TransientResponses
      [] profile = "rejected" -> {Plain("http_error")}
      [] profile = "overloaded" ->
            {Plain("http_error"), [kind |-> "rate_limit", hint |-> "timestamp", hint_val |-> 90]}
      [] OTHER -> {Plain("ok")} \cup RateLimitResponses \cup TransientResponses

Profiles == {"any", "success", "rate_limited", "transient", "rejected"}

(***************************************************************************)
(* _handle_api_response, per branch, on the record used for the call.      *)
(* result: "dict" (True, parsed), "None" (False, None), "rate_limit"       *)
(* (False, {"rate_limit": True, ...}), "raise" (an exception leaves the    *)
(* method).                                                                *)
(***************************************************************************)
\* A 200 branch that leaves error_count as it was: the variant the reset of
\* error_count on success is tested against.
handle_success_keeps_errors(ki, resp, t) ==
    LET used == [ki EXCEPT !.successful_requests = @ + 1, !.last_used = t]
    IN  IF resp.kind = "ok"
        THEN [key_info |-> used, result |-> "dict", hits |-> 0]
        ELSE IF resp.kind = "not_dict"
        THEN [key_info |-> used, result |-> "None", hits |-> 0]
        ELSE [key_info |-> [used EXCEPT !.error_count = @ + 1],
              result |-> "None", hits |-> 0]

handle_success(ki, resp, t) ==
    LET used == [ki EXCEPT !.successful_requests = @ + 1,
                           !.last_used = t,
                           !.error_count = 0]
    IN  IF resp.kind = "ok"
        THEN [key_info |-> used, result |-> "dict", hits |-> 0]
        ELSE IF resp.kind = "not_dict"
        THEN [key_info |-> used, result |-> "None", hits |-> 0]
        ELSE [key_info |-> [used EXCEPT !.error_count = @ + 1],
              result |-> "None", hits |-> 0]

\* A 429 branch that never reads the header: the variant the use of the provider's
\* reset time is tested against.
handle_rate_limit_ignores_hint(ki, resp, t) ==
    [key_info |-> [ki EXCEPT !.status = "rate_limited",
                             !.rate_limit_reset = t + rate_limit_cooldown],
     result |-> "rate_limit", hits |-> 1]

handle_rate_limit(ki, resp, t) ==
    LET limited == [ki EXCEPT !.status = "rate_limited",
                              !.rate_limit_reset = t + rate_limit_cooldown]
    IN  IF resp.hint = "timestamp"
        THEN [key_info |-> [limited EXCEPT !.rate_limit_reset = resp.hint_val],
              result |-> "rate_limit", hits |-> 1]
        ELSE IF resp.hint = "overflow"
        THEN [key_info |-> limited, result |-> "raise", hits |-> 1]
        ELSE [key_info |-> limited, result |-> "rate_limit", hits |-> 1]

handle_other_error(ki, resp, t) ==
    LET counted == [ki EXCEPT !.error_count = @ + 1, !.last_error = "HTTP"]
    IN  IF counted.error_count >= max_errors_before_cooldown
        THEN [key_info |-> [counted EXCEPT !.status = "cooling_down",
                                           !.cooldown_until = t + error_cooldown],
              result |-> "None", hits |-> 0]
        ELSE [key_info |-> counted, result |-> "None", hits |-> 0]

_handle_api_response(ki, resp, t) ==
    IF resp.kind \in {"ok", "not_dict", "malformed"} THEN handle_success(ki, resp, t)
    ELSE IF resp.kind = "rate_limit" THEN handle_rate_limit(ki, resp, t)
    ELSE handle_other_error(ki, resp, t)

\* _make_request_with_key, the except clause for RequestException
request_exception(ki) ==
    [key_info |-> [ki EXCEPT !.error_count = @ + 1, !.last_error = "Request exception"],
     result |-> "None", hits |-> 0]

\* _make_request_with_key from the POST on: the response handled, or the exception
receive(ki, resp, t) ==
    IF resp.kind = "network" THEN request_exception(ki)
    ELSE _handle_api_response(ki, resp, t)

(***************************************************************************)
(* reset_key_status: a falsy key_name ("" here) resets every record.       *)
(***************************************************************************)
\* A reset that clears the counters and timestamps but leaves the status: the
\* variant the eligibility after reset_key_status is tested against.
reset_record_keeps_status(ki) ==
    [ki EXCEPT !.error_count = 0, !.cooldown_until = NONE,
               !.rate_limit_reset = NONE, !.last_error = "None"]

\* A reset that also zeroes the counters of the record: the variant the
\* monotonicity of the counters is tested against.
reset_record_clears_counters(ki) ==
    [ki EXCEPT !.status = "active", !.error_count = 0, !.cooldown_until = NONE,
               !.rate_limit_reset = NONE, !.last_error = "None",
               !.total_requests = 0, !.successful_requests = 0]

reset_record(ki) ==
    [ki EXCEPT !.status = "active", !.error_count = 0, !.cooldown_until = NONE,
               !.rate_limit_reset = NONE, !.last_error = "None"]

\* A reset that falls through to the reset of every record when the name is not
\* found: the variant the frame of a failed reset_key_status is tested against.
reset_key_status_falls_through(keys, key_name) ==
    IF key_name # "" /\ \E i \in DOMAIN keys : keys[i].name = key_name
    THEN [i \in DOMAIN keys |->
            IF keys[i].name = key_name THEN reset_record(keys[i]) ELSE keys[i]]
    ELSE [i \in DOMAIN keys |-> reset_record(keys[i])]

reset_key_status(keys, key_name) ==
    IF key_name # ""
    THEN [i \in DOMAIN keys |->
            IF keys[i].name = key_name THEN reset_record(keys[i]) ELSE keys[i]]
    ELSE [i \in DOMAIN keys |-> reset_record(keys[i])]

reset_key_status_returns(keys, key_name) ==
    IF key_name # "" THEN \E i \in DOMAIN keys : keys[i].name = key_name ELSE TRUE

(***************************************************************************)
(* get_status: to_dict() of every record (asdict: every field of the       *)
(* dataclass) plus success_rate and available.  The rate is kept as the    *)
(* pair <<successes, attempts>>, <<0, 1>> standing for 0.0.                *)
(***************************************************************************)
to_dict(ki) ==
    [key |-> ki.key, name |-> ki.name, status |-> ki.status,
     last_used |-> ki.last_used, rate_limit_reset |-> ki.rate_limit_reset,
     error_count |-> ki.error_count, total_requests |-> ki.total_requests,
     successful_requests |-> ki.successful_requests,
     last_error |-> ki.last_error, cooldown_until |-> ki.cooldown_until]

key_status(ki, t) ==
    [fields |-> to_dict(ki),
     success_rate |-> IF ki.total_requests > 0
                      THEN <<ki.successful_requests, ki.total_requests>>
                      ELSE <<0, 1>>,
     available |-> /\ ki.status = "active"
                   /\ (ki.cooldown_until = NONE \/ ki.cooldown_until <= t)
                   /\ (ki.rate_limit_reset = NONE \/ ki.rate_limit_reset <= t)]

get_status(keys, st, t) ==
    [timestamp |-> t, stats |-> st, keys |-> [i \in DOMAIN keys |-> key_status(keys[i], t)]]

\* routes.py, api_status: the JSON body of /api/status
api_status(keys, st, t) ==
    LET status == get_status(keys, st, t)
    IN  [status |-> "ok",
         manager_stats |-> status.stats,
         available_keys |-> Cardinality({i \in DOMAIN status.keys : status.keys[i].available}),
         total_keys |-> Len(status.keys),
         key_details |-> status.keys]

(***************************************************************************)
(* Construction: GroqAPIManager.__init__ on an environment.                *)
(***************************************************************************)
Secrets == {"sk-a", "sk-b"}

NoCallers ==
    /\ pc = [c \in Callers |-> "idle"]
    /\ max_retries = [c \in Callers |-> default_max_retries]
    /\ attempt = [c \in Callers |-> 0]
    /\ key_info = [c \in Callers |-> NONE]
    /\ sticky = [c \in Callers |-> FALSE]
    /\ result = [c \in Callers |-> "none"]
    /\ calls = [c \in Callers |-> 0]
    /\ slept = [c \in Callers |-> 0]
    /\ reg = [c \in Callers |-> 0]
    /\ reset_cooling = {}

InitLoad ==
    /\ env \in [Slots -> Secrets \cup {""}]
    /\ constructed = "no"
    /\ api_keys = <<>>
    /\ stats = InitStats
    /\ use_quest_based_rotation = FALSE
    /\ upstream = <<>>
    /\ now = 0
    /\ NoCallers

ConstructOk ==
    /\ constructed = "no"
    /\ _load_api_keys(env) # <<>>
    /\ api_keys' = _load_api_keys(env)
    /\ stats' = InitStats
    /\ upstream' = [i \in DOMAIN _load_api_keys(env) |-> "any"]
    /\ constructed' = "yes"
    /\ reset_cooling' = {}
    /\ UNCHANGED <<env, use_quest_based_rotation, now, callerVars>>

\* A construction that goes on with an empty store: the variant the failure of
\* construction without credentials is tested against.
ConstructSilently ==
    /\ constructed = "no"
    /\ _load_api_keys(env) = <<>>
    /\ constructed' = "yes"
    /\ reset_cooling' = {}
    /\ UNCHANGED <<env, api_keys, stats, use_quest_based_rotation, upstream, now, callerVars>>

ConstructRaise ==
    /\ constructed = "no"
    /\ _load_api_keys(env) = <<>>
    /\ constructed' = "failed"
    /\ reset_cooling' = {}
    /\ UNCHANGED <<env, api_keys, stats, use_quest_based_rotation, upstream, now, callerVars>>

NextLoad == ConstructOk \/ ConstructRaise

SpecLoad == InitLoad /\ [][NextLoad]_vars

(***************************************************************************)
(* Requests on a constructed manager.                                      *)
(***************************************************************************)
RequestEnvs(maxKeys) ==
    {[s \in Slots |-> IF s <= n THEN "sk-a" ELSE ""] : n \in 1..maxKeys}

QuestNums == {0, 1, 2}          \* quest_num argument; 0 stands for None (both falsy)
RetryArgs == {0, 2}             \* max_retries argument; 0 stands for None (both falsy)

InitRequests(envs, rotations, profiles) ==
    /\ env \in envs
    /\ constructed = "yes"
    /\ api_keys = _load_api_keys(env)
    /\ stats = InitStats
    /\ use_quest_based_rotation \in rotations
    /\ upstream \in [DOMAIN _load_api_keys(env) -> profiles]
    /\ now = 0
    /\ NoCallers

\* the locals of caller c, and their assignment
Locals(c) ==
    [pc |-> pc[c], attempt |-> attempt[c], key_info |-> key_info[c], sticky |-> sticky[c],
     result |-> result[c], calls |-> calls[c], slept |-> slept[c]]

FreshLocals ==
    [pc |-> "idle", attempt |-> 0, key_info |-> NONE, sticky |-> FALSE,
     result |-> "none", calls |-> 0, slept |-> 0]

SetLocals(c, L) ==
    /\ pc' = [pc EXCEPT ![c] = L.pc]
    /\ attempt' = [attempt EXCEPT ![c] = L.attempt]
    /\ key_info' = [key_info EXCEPT ![c] = L.key_info]
    /\ sticky' = [sticky EXCEPT ![c] = L.sticky]
    /\ result' = [result EXCEPT ![c] = L.result]
    /\ calls' = [calls EXCEPT ![c] = L.calls]
    /\ slept' = [slept EXCEPT ![c] = L.slept]
    /\ UNCHANGED reg

\* A delay that grows by base_retry_delay per attempt: the variant the doubling of
\* the backoff is tested against.
Delay_linear(a) == base_retry_delay * (a + 1)

Delay(a) == base_retry_delay * Pow2(a)

\* A POST counted on every record of the pool: the variant the frame of an
\* attempt is tested against.
post_counts_all(keys, st, L, i, quest) ==
    [keys |-> [j \in DOMAIN keys |-> [keys[j] EXCEPT !.total_requests = @ + 1]],
     stats |-> [st EXCEPT !.total_requests = @ + 1],
     L |-> [L EXCEPT !.key_info = i, !.sticky = quest, !.calls = @ + 1, !.pc = "wait"]]

\* _make_request_with_key up to the POST, with record i
post(keys, st, L, i, quest) ==
    [keys |-> [keys EXCEPT ![i].total_requests = @ + 1],
     stats |-> [st EXCEPT !.total_requests = @ + 1],
     L |-> [L EXCEPT !.key_info = i, !.sticky = quest, !.calls = @ + 1, !.pc = "wait"]]

\* make_request after the while loop
give_up(keys, st, L) ==
    [keys |-> keys,
     stats |-> [st EXCEPT !.failed_requests = @ + 1],
     L |-> [L EXCEPT !.result = "None", !.pc = "done"]]

\* make_request: time.sleep(delay) and attempt += 1
back_off(keys, st, L) ==
    [keys |-> keys,
     stats |-> st,
     L |-> [L EXCEPT !.slept = @ + Delay(L.attempt), !.attempt = @ + 1, !.pc = "loop"]]

\* A loop that sleeps after its last selection too: the variant the number of
\* sleeps of a make_request is tested against.
loop_head_sleeps_last(keys, st, mr, L, t) ==
    IF ~(L.attempt < mr)
    THEN give_up(keys, st, L)
    ELSE LET r == _get_next_available_key(keys, t)
         IN  IF r.idx # NONE THEN post(r.keys, st, L, r.idx, FALSE)
             ELSE back_off(r.keys, st, L)

\* make_request from the head of the while loop to the POST, the sleep or the return
loop_head(keys, st, mr, L, t) ==
    IF ~(L.attempt < mr)
    THEN give_up(keys, st, L)
    ELSE LET r == _get_next_available_key(keys, t)
         IN  IF r.idx # NONE THEN post(r.keys, st, L, r.idx, FALSE)
             ELSE IF L.attempt < mr - 1 THEN back_off(r.keys, st, L)
             ELSE give_up(r.keys, st, L)

\* make_request from its first line, with arguments quest_num = q and max_retries = mr
enter(keys, st, rotation, q, mr, t) ==
    IF rotation /\ q # 0
    THEN LET r == get_key_for_quest(keys, q, t)
         IN  IF r.idx # NONE THEN post(r.keys, st, FreshLocals, r.idx, TRUE)
             ELSE loop_head(r.keys, st, mr, FreshLocals, t)
    ELSE loop_head(keys, st, mr, FreshLocals, t)

\* make_request from the return of _make_request_with_key, h being what it did
after_call(keys, st, mr, L, h, t) ==
    IF h.result = "raise"
    THEN [keys |-> keys, stats |-> st, L |-> [L EXCEPT !.result = "raise", !.pc = "done"]]
    ELSE IF h.result = "dict"
    THEN [keys |-> keys,
          stats |-> [st EXCEPT !.successful_requests = @ + 1],
          L |-> [L EXCEPT !.result = "dict", !.pc = "done"]]
    ELSE IF L.sticky
    THEN loop_head(keys, st, mr, [L EXCEPT !.sticky = FALSE], t)
    ELSE IF h.result = "rate_limit"
    THEN loop_head(keys, [st EXCEPT !.key_switches = @ + 1], mr, L, t)
    ELSE IF L.attempt < mr - 1
    THEN back_off(keys, st, L)
    ELSE give_up(keys, st, [L EXCEPT !.attempt = @ + 1])

Begin(c, q, mr) ==
    /\ pc[c] = "idle"
    /\ LET m == IF mr # 0 THEN mr ELSE default_max_retries
           out == enter(api_keys, stats, use_quest_based_rotation, q, m, now)
       IN  /\ max_retries' = [max_retries EXCEPT ![c] = m]
           /\ api_keys' = out.keys
           /\ stats' = out.stats
           /\ SetLocals(c, out.L)
    /\ reset_cooling' = {}
    /\ UNCHANGED <<env, constructed, use_quest_based_rotation, upstream, now>>

\* the sleep is over
Wake(c) ==
    /\ pc[c] = "loop"
    /\ LET out == loop_head(api_keys, stats, max_retries[c], Locals(c), now)
       IN  /\ api_keys' = out.keys
           /\ stats' = out.stats
           /\ SetLocals(c, out.L)
    /\ reset_cooling' = {}
    /\ UNCHANGED <<env, constructed, use_quest_based_rotation, upstream, now, max_retries>>

\* the POST is over: resp is the provider's answer
Receive(c, resp) ==
    /\ pc[c] = "wait"
    /\ resp \in ResponsesOf(upstream[key_info[c]])
    /\ LET h == receive(api_keys[key_info[c]], resp, now)
           out == after_call([api_keys EXCEPT ![key_info[c]] = h.key_info],
                             [stats EXCEPT !.rate_limit_hits = @ + h.hits],
                             max_retries[c], Locals(c), h, now)
       IN  /\ api_keys' = out.keys
           /\ stats' = out.stats
           /\ SetLocals(c, out.L)
    /\ reset_cooling' = {}
    /\ UNCHANGED <<env, constructed, use_quest_based_rotation, upstream, now, max_retries>>

\* make_request has returned (or raised): its locals are gone
Return(c) ==
    /\ pc[c] = "done"
    /\ SetLocals(c, FreshLocals)
    /\ max_retries' = [max_retries EXCEPT ![c] = default_max_retries]
    /\ reset_cooling' = {}
    /\ UNCHANGED <<storeVars, now>>

\* reset_key_status(key_name), called by an administrator
ResetNames == {"", "GROQ_API_KEY", "GROQ_API_KEY2", "GROQ_API_KEY9"}

Reset(key_name) ==
    /\ api_keys' = reset_key_status(api_keys, key_name)
    /\ reset_cooling' = {i \in DOMAIN api_keys :
                            /\ key_name \in {"", api_keys[i].name}
                            /\ api_keys[i].status = "cooling_down"
                            /\ api_keys[i].cooldown_until # NONE
                            /\ now < api_keys[i].cooldown_until}
    /\ UNCHANGED <<env, stats, constructed, use_quest_based_rotation, upstream, now, callerVars>>

\* the step stays within maxCalls outbound calls and maxRequests calls of make_request
Within(maxCalls, maxRequests) ==
    /\ stats'.total_requests <= maxCalls
    /\ stats'.successful_requests + stats'.failed_requests
         + Cardinality({d \in Callers : pc'[d] \in {"wait", "loop"}}) <= maxRequests

\* the clock
Tick ==
    /\ now + ClockStep <= MaxTime
    /\ now' = now + ClockStep
    /\ reset_cooling' = {}
    /\ UNCHANGED <<storeVars, callerVars>>

(***************************************************************************)
(* SpecSeq: one caller at a time (caller 1), every configuration of the    *)
(* manager and every behaviour of the provider, no administrator.          *)
(***************************************************************************)
InitSeq == InitRequests(RequestEnvs(MaxKeys), BOOLEAN, Profiles)

NextSeq ==
    \/ \E q \in QuestNums, mr \in RetryArgs : Begin(1, q, mr) /\ Within(MaxCalls, MaxRequests)
    \/ Wake(1) /\ Within(MaxCalls, MaxRequests)
    \/ \E resp \in ResponsesOf("any") : Receive(1, resp) /\ Within(MaxCalls, MaxRequests)
    \/ Return(1)
    \/ Tick

SpecSeq == InitSeq /\ [][NextSeq]_vars

(***************************************************************************)
(* SpecAny: one caller at a time on the manager as config.py sets it up    *)
(* (use_quest_based_rotation False), max_retries left to the default or    *)
(* given as 4, the provider free to answer anything, or to reject a        *)
(* credential on every call.                                               *)
(***************************************************************************)
AnyRetryArgs == {0, 4}          \* max_retries argument; 0 stands for None (both falsy)

InitAny == InitRequests(RequestEnvs(AnyKeys), {FALSE}, {"any"})

NextAny ==
    \/ \E mr \in AnyRetryArgs : Begin(1, 0, mr) /\ Within(AnyCalls, AnyRequests)
    \/ Wake(1) /\ Within(AnyCalls, AnyRequests)
    \/ \E resp \in ResponsesOf("any") : Receive(1, resp) /\ Within(AnyCalls, AnyRequests)
    \/ Return(1)
    \/ \E key_name \in ResetNames : Reset(key_name)
    \/ Tick

SpecAny == InitAny /\ [][NextAny]_vars

(***************************************************************************)
(* Spec: the callers run concurrently on the manager as config.py sets it  *)
(* up (use_quest_based_rotation False, max_retries 3), the provider free   *)
(* to answer anything.                                                     *)
(***************************************************************************)
Init == InitRequests(RequestEnvs(ConcKeys), {FALSE}, {"any"})

Next ==
    \/ \E c \in Callers : Begin(c, 0, 0) /\ Within(ConcCalls, ConcRequests)
    \/ \E c \in Callers : Wake(c) /\ Within(ConcCalls, ConcRequests)
    \/ \E c \in Callers : \E resp \in ResponsesOf("any") :
          Receive(c, resp) /\ Within(ConcCalls, ConcRequests)
    \/ \E c \in Callers : Return(c)
    \/ \E key_name \in ResetNames : Reset(key_name)
    \/ Tick

Spec == Init /\ [][Next]_vars

(***************************************************************************)
(* SpecLoaded: the callers run concurrently on one record while the        *)
(* provider is overloaded: it answers HTTP 500, or 429 with a reset time   *)
(* of 90.                                                                  *)
(***************************************************************************)
InitLoaded == InitRequests(RequestEnvs(ConcKeys), {FALSE}, {"overloaded"})

NextLoaded ==
    \/ \E c \in Callers : Begin(c, 0, 0) /\ Within(LoadCalls, LoadRequests)
    \/ \E c \in Callers : Wake(c) /\ Within(LoadCalls, LoadRequests)
    \/ \E c \in Callers : \E resp \in ResponsesOf("overloaded") :
          Receive(c, resp) /\ Within(LoadCalls, LoadRequests)
    \/ \E c \in Callers : Return(c)
    \/ Tick

SpecLoaded == InitLoaded /\ [][NextLoaded]_vars

(***************************************************************************)
(* SpecRepeat: one caller making requests one after the other, with or     *)
(* without a quest number, on a manager with or without the quest-based    *)
(* rotation, max_retries left to the default, the provider free to answer  *)
(* anything, no administrator.                                             *)
(***************************************************************************)
InitRepeat == InitRequests(RequestEnvs(RepKeys), BOOLEAN, {"any"})

NextRepeat ==
    \/ \E q \in QuestNums : Begin(1, q, 0) /\ Within(RepCalls, RepRequests)
    \/ Wake(1) /\ Within(RepCalls, RepRequests)
    \/ \E resp \in ResponsesOf("any") : Receive(1, resp) /\ Within(RepCalls, RepRequests)
    \/ Return(1)
    \/ Tick

SpecRepeat == InitRepeat /\ [][NextRepeat]_vars

(***************************************************************************)
(* SpecFields: the callers run make_request(prompt, max_retries=1)         *)
(* concurrently, a step being one read or one write of a field.  Nothing   *)
(* in the code orders the callers (no lock), and x += 1 is a read of x     *)
(* followed by a write of x.  The provider answers a valid 200 or HTTP 500.*)
(* pc says which statement the caller is in:                               *)
(*   total_requests        key_info.total_requests += 1                    *)
(*   stats_total           self.stats["total_requests"] += 1               *)
(*   wait                  requests.post                                   *)
(*   successful_requests   key_info.successful_requests += 1 (and the two  *)
(*                         assignments after it)                           *)
(*   stats_successful      self.stats["successful_requests"] += 1          *)
(*   error_count           key_info.error_count += 1 (and the rest of the  *)
(*                         else branch)                                    *)
(*   stats_failed          self.stats["failed_requests"] += 1              *)
(* with load_ before the read and store_ before the write.                 *)
(***************************************************************************)
LoadPcs ==
    {"load_total_requests", "load_stats_total", "load_successful_requests",
     "load_stats_successful", "load_error_count", "load_stats_failed"}

StorePcs ==
    {"store_total_requests", "store_stats_total", "store_successful_requests",
     "store_stats_successful", "store_error_count", "store_stats_failed"}

\* the value a caller at a load reads
FieldRead(p, ki, st) ==
    CASE p = "load_total_requests" -> ki.total_requests
      [] p = "load_stats_total" -> st.total_requests
      [] p = "load_successful_requests" -> ki.successful_requests
      [] p = "load_stats_successful" -> st.successful_requests
      [] p = "load_error_count" -> ki.error_count
      [] p = "load_stats_failed" -> st.failed_requests

StoreAfter(p) ==
    CASE p = "load_total_requests" -> "store_total_requests"
      [] p = "load_stats_total" -> "store_stats_total"
      [] p = "load_successful_requests" -> "store_successful_requests"
      [] p = "load_stats_successful" -> "store_stats_successful"
      [] p = "load_error_count" -> "store_error_count"
      [] p = "load_stats_failed" -> "store_stats_failed"

\* make_request(prompt, max_retries=1) up to the first read of a counter
FieldsBegin(c) ==
    /\ pc[c] = "idle"
    /\ LET r == _get_next_available_key(api_keys, now)
       IN  /\ r.idx # NONE
           /\ api_keys' = r.keys
           /\ key_info' = [key_info EXCEPT ![c] = r.idx]
    /\ max_retries' = [max_retries EXCEPT ![c] = 1]
    /\ pc' = [pc EXCEPT ![c] = "load_total_requests"]
    /\ reset_cooling' = {}
    /\ UNCHANGED <<env, stats, constructed, use_quest_based_rotation, upstream, now,
                   attempt, sticky, result, calls, slept, reg>>

\* the read of x in x += 1
Load(c) ==
    /\ pc[c] \in LoadPcs
    /\ reg' = [reg EXCEPT ![c] = FieldRead(pc[c], api_keys[key_info[c]], stats)]
    /\ pc' = [pc EXCEPT ![c] = StoreAfter(pc[c])]
    /\ reset_cooling' = {}
    /\ UNCHANGED <<storeVars, now, max_retries, attempt, key_info, sticky, result, calls, slept>>
\* the record after the write of x in x += 1 and the assignments that follow it
RecordStored(p, ki, v, t) ==
    CASE p = "store_total_requests" -> [ki EXCEPT !.total_requests = v + 1]
      [] p = "store_successful_requests" ->
            [ki EXCEPT !.successful_requests = v + 1, !.last_used = t, !.error_count = 0]
      [] p = "store_error_count" ->
            IF v + 1 >= max_errors_before_cooldown
            THEN [ki EXCEPT !.error_count = v + 1, !.last_error = "HTTP",
                            !.status = "cooling_down", !.cooldown_until = t + error_cooldown]
            ELSE [ki EXCEPT !.error_count = v + 1, !.last_error = "HTTP"]
      [] OTHER -> ki

StatsStored(p, st, v) ==
    CASE p = "store_stats_total" -> [st EXCEPT !.total_requests = v + 1]
      [] p = "store_stats_successful" -> [st EXCEPT !.successful_requests = v + 1]
      [] p = "store_stats_failed" -> [st EXCEPT !.failed_requests = v + 1]
      [] OTHER -> st

PcAfterStore(p) ==
    CASE p = "store_total_requests" -> "load_stats_total"
      [] p = "store_stats_total" -> "wait"
      [] p = "store_successful_requests" -> "load_stats_successful"
      [] p = "store_error_count" -> "load_stats_failed"
      [] OTHER -> "done"

\* the write of x in x += 1
Store(c) ==
    /\ pc[c] \in StorePcs
    /\ api_keys' = [api_keys EXCEPT
                        ![key_info[c]] = RecordStored(pc[c], api_keys[key_info[c]], reg[c], now)]
    /\ stats' = StatsStored(pc[c], stats, reg[c])
    /\ pc' = [pc EXCEPT ![c] = PcAfterStore(pc[c])]
    /\ calls' = [calls EXCEPT ![c] = IF pc[c] = "store_stats_total" THEN @ + 1 ELSE @]
    /\ attempt' = [attempt EXCEPT ![c] = IF pc[c] = "store_error_count" THEN @ + 1 ELSE @]
    /\ result' = [result EXCEPT ![c] = CASE pc[c] = "store_stats_successful" -> "dict"
                                          [] pc[c] = "store_stats_failed" -> "None"
                                          [] OTHER -> @]
    /\ reset_cooling' = {}
    /\ UNCHANGED <<env, constructed, use_quest_based_rotation, upstream, now,
                   max_retries, key_info, sticky, slept, reg>>

\* the POST is over: a valid 200 or HTTP 500
FieldsReceive(c, resp) ==
    /\ pc[c] = "wait"
    /\ resp \in ResponsesOf(upstream[key_info[c]]) \cap {Plain("ok"), Plain("http_error")}
    /\ pc' = [pc EXCEPT ![c] = IF resp.kind = "ok" THEN "load_successful_requests"
                                ELSE "load_error_count"]
    /\ reset_cooling' = {}
    /\ UNCHANGED <<storeVars, now, max_retries, attempt, key_info, sticky, result, calls,
                   slept, reg>>

InitFields == InitRequests(RequestEnvs(ConcKeys), {FALSE}, {"any"})

NextFields ==
    \/ \E c \in Callers : FieldsBegin(c)
    \/ \E c \in Callers : Load(c)
    \/ \E c \in Callers : Store(c)
    \/ \E c \in Callers : \E resp \in {Plain("ok"), Plain("http_error")} : FieldsReceive(c, resp)

SpecFields == InitFields /\ [][NextFields]_vars

(***************************************************************************)
(* SpecRecover: the callers run make_request(prompt, max_retries=1)        *)
(* concurrently, a step being one scan of _get_next_available_key or one   *)
(* assignment to a field of a record (x += 1 counted as one assignment     *)
(* here).  The provider answers a valid 200, HTTP 500, or 429 without the  *)
(* header or with an integer one.  reg holds what the handler keeps for    *)
(* its coming assignments: <<the now it read at its first line, the        *)
(* header's value or NONE>>.  pc says which assignment comes next:         *)
(*   select                     _get_next_available_key (the scan)         *)
(*   set_active_rate_limited    key_info.status = ACTIVE, second tier      *)
(*   clear_rate_limit_reset     key_info.rate_limit_reset = None           *)
(*   set_active_cooling         key_info.status = ACTIVE, third tier       *)
(*   clear_cooldown_until       key_info.cooldown_until = None             *)
(*   clear_error_count          key_info.error_count = 0                   *)
(*   post                       the two total_requests += 1, then the POST *)
(*   wait                       requests.post                              *)
(*   set_rate_limited           key_info.status = RATE_LIMITED             *)
(*   set_rate_limit_reset       key_info.rate_limit_reset = now + cooldown *)
(*   set_reset_hint             key_info.rate_limit_reset = the header's   *)
(*   count_error                key_info.error_count += 1 and last_error   *)
(*   set_cooling_down           key_info.status = COOLING_DOWN             *)
(*   set_cooldown_until         key_info.cooldown_until = now + cooldown   *)
(*   count_success              the three assignments of the 200 branch    *)
(***************************************************************************)
RecoverResponses ==
    {Plain("ok"), Plain("http_error"), Plain("rate_limit")}
    \cup {[kind |-> "rate_limit", hint |-> "timestamp", hint_val |-> v] : v \in HintValues}

WritePcs ==
    {"set_active_rate_limited", "clear_rate_limit_reset", "set_active_cooling",
     "clear_cooldown_until", "clear_error_count", "post", "set_rate_limited",
     "set_rate_limit_reset", "set_reset_hint", "count_error", "set_cooling_down",
     "set_cooldown_until", "count_success"}

\* make_request(prompt, max_retries=1) at the head of its loop: the scan of
\* _get_next_available_key, up to the record it settles on
Select(c) ==
    /\ pc[c] \in {"idle", "select"}
    /\ LET i == IF ActiveNow(api_keys, now) # {} THEN Min(ActiveNow(api_keys, now))
                ELSE IF RateLimitPassed(api_keys, now) # {}
                THEN Min(RateLimitPassed(api_keys, now))
                ELSE IF CooldownPassed(api_keys, now) # {}
                THEN Min(CooldownPassed(api_keys, now))
                ELSE NONE
       IN  /\ key_info' = [key_info EXCEPT ![c] = i]
           /\ pc' = [pc EXCEPT ![c] =
                        IF i = NONE THEN "done"
                        ELSE IF api_keys[i].status = "active" THEN "post"
                        ELSE IF api_keys[i].status = "rate_limited"
                        THEN "set_active_rate_limited"
                        ELSE "set_active_cooling"]
           /\ result' = [result EXCEPT ![c] = IF i = NONE THEN "None" ELSE @]
           /\ stats' = IF i = NONE THEN [stats EXCEPT !.failed_requests = @ + 1] ELSE stats
    /\ max_retries' = [max_retries EXCEPT ![c] = 1]
    /\ reset_cooling' = {}
    /\ UNCHANGED <<env, api_keys, constructed, use_quest_based_rotation, upstream, now,
                   attempt, sticky, calls, slept, reg>>

\* the record after the assignment a caller at p makes, t and hint being what
\* its handler holds
RecordWritten(p, ki, t, hint) ==
    CASE p \in {"set_active_rate_limited", "set_active_cooling"} -> [ki EXCEPT !.status = "active"]
      [] p = "clear_rate_limit_reset" -> [ki EXCEPT !.rate_limit_reset = NONE]
      [] p = "clear_cooldown_until" -> [ki EXCEPT !.cooldown_until = NONE]
      [] p = "clear_error_count" -> [ki EXCEPT !.error_count = 0]
      [] p = "post" -> [ki EXCEPT !.total_requests = @ + 1]
      [] p = "set_rate_limited" -> [ki EXCEPT !.status = "rate_limited"]
      [] p = "set_rate_limit_reset" -> [ki EXCEPT !.rate_limit_reset = t + rate_limit_cooldown]
      [] p = "set_reset_hint" -> [ki EXCEPT !.rate_limit_reset = hint]
      [] p = "count_error" -> [ki EXCEPT !.error_count = @ + 1, !.last_error = "HTTP"]
      [] p = "set_cooling_down" -> [ki EXCEPT !.status = "cooling_down"]
      [] p = "set_cooldown_until" -> [ki EXCEPT !.cooldown_until = t + error_cooldown]
      [] p = "count_success" ->
            [ki EXCEPT !.successful_requests = @ + 1, !.last_used = t, !.error_count = 0]

\* self.stats after that assignment and what make_request does up to the next one
StatsWritten(p, st, hint) ==
    CASE p = "post" -> [st EXCEPT !.total_requests = @ + 1]
      [] p = "set_rate_limit_reset" /\ hint = NONE ->
            [st EXCEPT !.rate_limit_hits = @ + 1, !.key_switches = @ + 1]
      [] p = "set_rate_limit_reset" /\ hint # NONE -> [st EXCEPT !.rate_limit_hits = @ + 1]
      [] p = "set_reset_hint" -> [st EXCEPT !.key_switches = @ + 1]
      [] p = "set_cooldown_until" -> [st EXCEPT !.failed_requests = @ + 1]
      [] p = "count_success" -> [st EXCEPT !.successful_requests = @ + 1]
      [] OTHER -> st

\* where the caller is after it; ki is the record as written
PcAfterWrite(p, ki, hint) ==
    CASE p = "set_active_rate_limited" -> "clear_rate_limit_reset"
      [] p = "clear_rate_limit_reset" -> "post"
      [] p = "set_active_cooling" -> "clear_cooldown_until"
      [] p = "clear_cooldown_until" -> "clear_error_count"
      [] p = "clear_error_count" -> "post"
      [] p = "post" -> "wait"
      [] p = "set_rate_limited" -> "set_rate_limit_reset"
      [] p = "set_rate_limit_reset" -> IF hint = NONE THEN "select" ELSE "set_reset_hint"
      [] p = "set_reset_hint" -> "select"
      [] p = "count_error" ->
            IF ki.error_count >= max_errors_before_cooldown THEN "set_cooling_down"
            ELSE "failed"
      [] p = "set_cooling_down" -> "set_cooldown_until"
      [] p = "set_cooldown_until" -> "done"
      [] p = "count_success" -> "done"

\* one assignment
Write(c) ==
    /\ pc[c] \in WritePcs
    /\ LET k == key_info[c]
           ki == RecordWritten(pc[c], api_keys[k], reg[c][1], reg[c][2])
           to == PcAfterWrite(pc[c], ki, reg[c][2])
           st == StatsWritten(pc[c], stats, reg[c][2])
       IN  /\ api_keys' = [api_keys EXCEPT ![k] = ki]
           /\ stats' = IF to = "failed" THEN [st EXCEPT !.failed_requests = @ + 1] ELSE st
           /\ pc' = [pc EXCEPT ![c] = IF to = "failed" THEN "done" ELSE to]
           /\ attempt' = [attempt EXCEPT ![c] =
                              IF to = "failed" \/ pc[c] = "set_cooldown_until" THEN @ + 1 ELSE @]
           /\ result' = [result EXCEPT ![c] =
                              IF to = "failed" \/ pc[c] = "set_cooldown_until" THEN "None"
                              ELSE IF pc[c] = "count_success" THEN "dict" ELSE @]
    /\ calls' = [calls EXCEPT ![c] = IF pc[c] = "post" THEN @ + 1 ELSE @]
    /\ reset_cooling' = {}
    /\ UNCHANGED <<env, constructed, use_quest_based_rotation, upstream, now,
                   max_retries, key_info, sticky, slept, reg>>

\* the POST is over: _handle_api_response reads the clock and takes its branch
Answer(c, resp) ==
    /\ pc[c] = "wait"
    /\ resp \in ResponsesOf(upstream[key_info[c]]) \cap RecoverResponses
    /\ reg' = [reg EXCEPT ![c] =
                  <<now, IF resp.hint = "timestamp" THEN resp.hint_val ELSE NONE>>]
    /\ pc' = [pc EXCEPT ![c] = CASE resp.kind = "ok" -> "count_success"
                                 [] resp.kind = "rate_limit" -> "set_rate_limited"
                                 [] OTHER -> "count_error"]
    /\ reset_cooling' = {}
    /\ UNCHANGED <<storeVars, now, max_retries, attempt, key_info, sticky, result, calls,
                   slept>>

\* the step stays within maxCalls outbound calls and maxRequests calls of make_request
WithinRecover(maxCalls, maxRequests) ==
    /\ stats'.total_requests <= maxCalls
    /\ stats'.successful_requests + stats'.failed_requests
         + Cardinality({d \in Callers : pc'[d] \notin {"idle", "done"}}) <= maxRequests

InitRecover ==
    InitRequests(RequestEnvs(ConcKeys), {FALSE}, {"any"})

NextRecover ==
    \/ \E c \in Callers : Select(c) /\ WithinRecover(RecCalls, RecRequests)
    \/ \E c \in Callers : Write(c) /\ WithinRecover(RecCalls, RecRequests)
    \/ \E c \in Callers : \E resp \in RecoverResponses : Answer(c, resp)
    \/ \E c \in Callers : Return(c)
    \/ Tick

SpecRecover == InitRecover /\ [][NextRecover]_vars

(***************************************************************************)
(* Properties.                                                             *)
(***************************************************************************)

\* C1: whenever make_request returns while a record of the pool is usable (ACTIVE,
\* no unexpired timestamp, the provider answering Success on every call made with
\* it), it returns the parsed response and not None - whatever the records
\* registered before it answer.
C1_UsableRecordMeansSuccess ==
    \A c \in Callers :
        (/\ pc[c] = "done"
         /\ result[c] # "raise"
         /\ \E i \in DOMAIN api_keys :
                upstream[i] = "success" /\ AssignedAvailable(api_keys[i], now))
        => result[c] = "dict"

\* C2: a make_request makes at most max_retries outbound calls, plus one when the
\* quest-specific call is made first, whatever the provider answers.
C2_CallsWithinRetryCeiling ==
    \A c \in Callers :
        calls[c] <= max_retries[c] + (IF use_quest_based_rotation THEN 1 ELSE 0)

\* C3: the body of /api/status does not depend on the secrets: it is the same for
\* the store and for the store with every secret replaced by another one.
WithSecrets(keys, secret) == [i \in DOMAIN keys |-> [keys[i] EXCEPT !.key = secret]]

C3_StatusHidesSecrets ==
    api_status(api_keys, stats, now) = api_status(WithSecrets(api_keys, "sk-b"), stats, now)

\* C4: with two records, the first answering RateLimited on every call and the
\* second Success, make_request returns the second record's parsed response
\* with attempt still 0 and no time.sleep taken.
C4_RateLimitedThenSuccess ==
    \A c \in Callers :
        (/\ Len(api_keys) = 2
         /\ upstream[1] = "rate_limited"
         /\ upstream[2] = "success"
         /\ pc[c] = "done")
        => (/\ result[c] = "dict"
            /\ key_info[c] = 2
            /\ attempt[c] = 0
            /\ slept[c] = 0)

\* C5: with one record that answers a TransientError of any kind on every call, a
\* make_request that made max_errors_before_cooldown calls with the fresh record
\* returns None and leaves the record COOLING_DOWN.
C5_TransientPoolCoolsDown ==
    \A c \in Callers :
        (/\ Len(api_keys) = 1
         /\ upstream[1] = "transient"
         /\ pc[c] = "done"
         /\ calls[c] = max_errors_before_cooldown
         /\ api_keys[1].total_requests = max_errors_before_cooldown)
        => (/\ result[c] = "None"
            /\ api_keys[1].status = "cooling_down")

\* C6: the record that selection returns at the current time is ACTIVE and has no
\* rate_limit_reset later than the current time; a RATE_LIMITED record whose
\* rate_limit_reset has passed is eligible, and when selection returns it its
\* rate_limit_reset is cleared.
C6_RateLimitedExcludedUntilReset ==
    LET r == _get_next_available_key(api_keys, now)
    IN  /\ r.idx # NONE =>
              /\ r.keys[r.idx].status = "active"
              /\ (r.keys[r.idx].rate_limit_reset = NONE \/ r.keys[r.idx].rate_limit_reset <= now)
              /\ (api_keys[r.idx].status = "rate_limited" => r.keys[r.idx].rate_limit_reset = NONE)
        /\ (\E i \in DOMAIN api_keys :
                /\ api_keys[i].status = "rate_limited"
                /\ api_keys[i].rate_limit_reset # NONE
                /\ api_keys[i].rate_limit_reset <= now) => r.idx # NONE

\* C7: a record whose error_count has reached max_errors_before_cooldown is not
\* ACTIVE any more, and the cooldown_until of a record that stays COOLING_DOWN does
\* not change.
C7_CooldownOnceAtThreshold ==
    [][\A i \in DOMAIN api_keys :
          /\ api_keys'[i].error_count >= max_errors_before_cooldown
                => api_keys'[i].status # "active"
          /\ (api_keys[i].status = "cooling_down" /\ api_keys'[i].status = "cooling_down")
                => api_keys'[i].cooldown_until = api_keys[i].cooldown_until]_vars

\* C8: when make_request has returned a parsed response, the record it was obtained
\* with has error_count 0.
C8_SuccessResetsErrorCount ==
    \A c \in Callers :
        (pc[c] = "done" /\ result[c] = "dict") => api_keys[key_info[c]].error_count = 0

\* a success with a record whose one earlier call had failed (error_count was 1)
C8_Witness ==
    \E c \in Callers :
        /\ pc[c] = "done"
        /\ result[c] = "dict"
        /\ api_keys[key_info[c]].total_requests = 2
        /\ api_keys[key_info[c]].successful_requests = 1
        /\ api_keys[key_info[c]].last_error # "None"
        /\ api_keys[key_info[c]].error_count = 0

\* C9: right after reset_key_status on a record that was COOLING_DOWN with its
\* cooldown_until still ahead, the record is ACTIVE with error_count 0 and no
\* timestamp, and selection at the current time returns it unless a record
\* registered before it is available.
C9_ResetMakesEligible ==
    \A i \in reset_cooling :
        /\ api_keys[i].status = "active"
        /\ api_keys[i].error_count = 0
        /\ api_keys[i].cooldown_until = NONE
        /\ api_keys[i].rate_limit_reset = NONE
        /\ LET r == _get_next_available_key(api_keys, now)
           IN  /\ r.idx # NONE
               /\ r.idx <= i
               /\ (\A j \in 1..(i - 1) : ~AssignedAvailable(api_keys[j], now)) => r.idx = i

\* a reset of a cooling record after which selection returns that record
C9_Witness ==
    \E i \in reset_cooling : _get_next_available_key(api_keys, now).idx = i

\* C10: construction yields one record per configured slot, in slot order, each
\* ACTIVE with zero counters and null timestamps.
Configured(e) == {s \in Slots : e[s] # ""}

SlotAt(e, i) == CHOOSE s \in Configured(e) : Cardinality({u \in Configured(e) : u < s}) = i - 1

C10_ConstructionYieldsActiveRecords ==
    constructed = "yes" =>
        /\ Len(api_keys) = Cardinality(Configured(env))
        /\ \A i \in 1..Len(api_keys) :
              api_keys[i] =
                  [key |-> env[SlotAt(env, i)], name |-> key_names[SlotAt(env, i)],
                   status |-> "active", last_used |-> NONE, rate_limit_reset |-> NONE,
                   error_count |-> 0, total_requests |-> 0, successful_requests |-> 0,
                   last_error |-> "None", cooldown_until |-> NONE]

\* a store built from slots 2 and 4
C10_Witness ==
    /\ constructed = "yes"
    /\ Configured(env) = {2, 4}
    /\ Len(api_keys) = 2
    /\ api_keys[2].name = "GROQ_API_KEY4"

\* C11: construction on an environment with no slot set raises (no manager exists
\* afterwards, the store stays empty), and construction raises in no other case.
C11_NoCredentialsFailsConstruction ==
    /\ (constructed # "no" /\ Configured(env) = {}) => (constructed = "failed" /\ api_keys = <<>>)
    /\ constructed = "failed" => Configured(env) = {}

\* construction was attempted on the environment with no slot set
C11_Witness ==
    /\ constructed = "failed"
    /\ env = [s \in Slots |-> ""]

\* C13: make_request ends by returning a parsed dict or None: no exception leaves
\* it and it returns no rate-limit marker.
C13_FailuresAreAbsorbed ==
    \A c \in Callers : pc[c] = "done" => result[c] \in {"dict", "None"}

\* C14: reset_key_status applied twice gives the store it gives applied once; with
\* a name it returns True exactly when a record has that name, and when it returns
\* False the store is as it was.  (A falsy name is the reset of every record.)
C14_ResetIdempotent ==
    \A key_name \in ResetNames :
        LET once == reset_key_status(api_keys, key_name)
        IN  /\ reset_key_status(once, key_name) = once
            /\ key_name # "" =>
                  /\ reset_key_status_returns(api_keys, key_name)
                        <=> \E i \in DOMAIN api_keys : api_keys[i].name = key_name
                  /\ ~reset_key_status_returns(api_keys, key_name) => once = api_keys

\* reset_key_status has just taken a record out of its cooldown: a second reset of
\* that record changes nothing, and no record has the name GROQ_API_KEY9
C14_Witness ==
    /\ \E i \in reset_cooling : reset_key_status(api_keys, api_keys[i].name) = api_keys
    /\ ~reset_key_status_returns(api_keys, "GROQ_API_KEY9")

\* C12: the success_rate get_status reports for a record is 0.0 when its
\* total_requests is 0 and successful_requests / total_requests otherwise, it is at
\* most 1, and successful_requests counts only the calls that returned a parsed
\* dict: over the store they add up to the successes make_request has returned.
RECURSIVE SuccessesFrom(_, _)
SuccessesFrom(keys, i) ==
    IF i > Len(keys) THEN 0 ELSE keys[i].successful_requests + SuccessesFrom(keys, i + 1)

C12_SuccessRateOfSuccesses ==
    /\ \A i \in DOMAIN api_keys :
          LET reported == get_status(api_keys, stats, now).keys[i].success_rate
          IN  /\ reported = IF api_keys[i].total_requests = 0 THEN <<0, 1>>
                            ELSE <<api_keys[i].successful_requests, api_keys[i].total_requests>>
              /\ reported[1] <= reported[2]
    /\ SuccessesFrom(api_keys, 1) = stats.successful_requests

\* C16: no record has both rate_limit_reset and cooldown_until set, and a
\* RATE_LIMITED record has no cooldown_until.
C16_OneTimestampPerRecord ==
    \A i \in DOMAIN api_keys :
        /\ ~(api_keys[i].rate_limit_reset # NONE /\ api_keys[i].cooldown_until # NONE)
        /\ api_keys[i].status = "rate_limited" => api_keys[i].cooldown_until = NONE

\* C18: whenever a call is outstanding, a 200 whose body does not parse into a dict
\* would leave the record's successful_requests as it is and its error_count one
\* higher, and would not be returned as a success.
C18_UnparsedBodyIsTransient ==
    \A c \in Callers :
        pc[c] = "wait" =>
            \A resp \in {Plain("malformed"), Plain("not_dict")} :
                LET before == api_keys[key_info[c]]
                    h == receive(before, resp, now)
                IN  /\ h.key_info.successful_requests = before.successful_requests
                    /\ h.key_info.error_count = before.error_count + 1
                    /\ h.result = "None"

\* C19: whenever a call is outstanding, a 429 would change of the record exactly
\* its status, to RATE_LIMITED, and its rate_limit_reset, to the time the header
\* gives when fromtimestamp accepts it and to now + rate_limit_cooldown otherwise
\* (error_count, successful_requests, last_error and total_requests stay).
C19_RateLimitOutcome ==
    \A c \in Callers :
        pc[c] = "wait" =>
            \A resp \in RateLimitResponses :
                LET before == api_keys[key_info[c]]
                    h == receive(before, resp, now)
                IN  h.key_info =
                        [before EXCEPT
                            !.status = "rate_limited",
                            !.rate_limit_reset = IF resp.hint = "timestamp" THEN resp.hint_val
                                                 ELSE now + rate_limit_cooldown]

\* a 429 with the header at 90 has been applied to a record whose earlier call had
\* failed: its error_count and last_error are those of the failure
C19_Witness ==
    \E i \in DOMAIN api_keys :
        /\ api_keys[i].status = "rate_limited"
        /\ api_keys[i].rate_limit_reset = 90
        /\ api_keys[i].error_count = 1
        /\ api_keys[i].last_error = "HTTP"
        /\ api_keys[i].total_requests = 2
        /\ api_keys[i].successful_requests = 0

\* C20: inside make_request the time slept so far is base_retry_delay * (2^attempt - 1),
\* so the sleep taken at attempt k lasts base_retry_delay * 2^k; a make_request that
\* returns None has slept base_retry_delay * (2^(max_retries - 1) - 1) in total, none
\* of it at the last attempt.
C20_BackoffDoubles ==
    \A c \in Callers :
        /\ pc[c] \in {"wait", "loop"} =>
              /\ attempt[c] <= max_retries[c] - 1
              /\ slept[c] = base_retry_delay * (Pow2(attempt[c]) - 1)
        /\ (pc[c] = "done" /\ result[c] = "None") =>
              slept[c] = base_retry_delay * (Pow2(max_retries[c] - 1) - 1)

\* a make_request with max_retries = 4 has returned None after sleeping 1 + 2 + 4
C20_Witness ==
    \E c \in Callers :
        /\ pc[c] = "done"
        /\ result[c] = "None"
        /\ max_retries[c] = 4
        /\ slept[c] = 7

\* C17: selection at the current time returns the first record that is ACTIVE with
\* no unexpired cooldown_until or rate_limit_reset; when there is none, the first
\* RATE_LIMITED record whose rate_limit_reset has passed; when there is none, the
\* first COOLING_DOWN record whose cooldown_until has passed, made ACTIVE with
\* cooldown_until cleared and error_count 0; and None otherwise.
EligibleNow(keys, t) == {i \in DOMAIN keys : AssignedAvailable(keys[i], t)}

FirstByTier(keys, t) ==
    IF EligibleNow(keys, t) # {} THEN Min(EligibleNow(keys, t))
    ELSE IF RateLimitPassed(keys, t) # {} THEN Min(RateLimitPassed(keys, t))
    ELSE IF CooldownPassed(keys, t) # {} THEN Min(CooldownPassed(keys, t))
    ELSE NONE

C17_SelectionByThreeTiers ==
    LET r == _get_next_available_key(api_keys, now)
    IN  /\ r.idx = FirstByTier(api_keys, now)
        /\ (r.idx # NONE /\ api_keys[r.idx].status = "cooling_down") =>
              /\ r.keys[r.idx].status = "active"
              /\ r.keys[r.idx].cooldown_until = NONE
              /\ r.keys[r.idx].error_count = 0

\* C15: when no make_request is running, each record's total_requests is the
\* number of outbound calls made with it, its successful_requests the number of
\* those that returned a parsed dict, and stats["total_requests"] the sum of the
\* records' total_requests.
RECURSIVE TotalsFrom(_, _)
TotalsFrom(keys, i) ==
    IF i > Len(keys) THEN 0 ELSE keys[i].total_requests + TotalsFrom(keys, i + 1)

C15_CountersConsistent ==
    (\A c \in Callers : pc[c] \in {"idle", "done"}) =>
        /\ \A i \in DOMAIN api_keys :
              /\ api_keys[i].total_requests =
                    Cardinality({c \in Callers : key_info[c] = i /\ calls[c] = 1})
              /\ api_keys[i].successful_requests =
                    Cardinality({c \in Callers : key_info[c] = i /\ result[c] = "dict"})
        /\ stats.total_requests = TotalsFrom(api_keys, 1)

\* C21 as the specification words it: with use_quest_based_rotation on, the
\* quest-specific call of make_request(quest_num = q) uses the record at index
\* q modulo the number of records (counting from 0) when that record is
\* available and what _get_next_available_key returns otherwise; that call is
\* the first of the make_request and is made with attempt still 0.
C21_StickyAssignmentByTag ==
    /\ \A q \in QuestNums \ {0} :
          LET assigned == (q % Len(api_keys)) + 1
              expected == IF AssignedAvailable(api_keys[assigned], now) THEN assigned
                          ELSE _get_next_available_key(api_keys, now).idx
              out == enter(api_keys, stats, TRUE, q, default_max_retries, now)
          IN  expected # NONE => (out.L.pc = "wait" /\ out.L.key_info = expected)
    /\ \A c \in Callers :
          (pc[c] = "wait" /\ sticky[c]) =>
              (use_quest_based_rotation /\ calls[c] = 1 /\ attempt[c] = 0)

\* C21, amended: with use_quest_based_rotation on and a quest number q other
\* than 0, the first call of make_request uses the record at index (q - 1) modulo
\* the number of records (counting from 0) when that record is available and
\* what _get_next_available_key returns otherwise; it is the only quest-specific
\* call, made with attempt still 0, and a successful answer to it ends the
\* make_request with that answer.  With the rotation off the quest number
\* changes nothing.
C21_StickyAssignmentFromOne ==
    /\ \A q \in QuestNums \ {0} :
          LET assigned == ((q - 1) % Len(api_keys)) + 1
              expected == IF AssignedAvailable(api_keys[assigned], now) THEN assigned
                          ELSE _get_next_available_key(api_keys, now).idx
              out == enter(api_keys, stats, TRUE, q, default_max_retries, now)
          IN  /\ expected # NONE =>
                    /\ out.L.pc = "wait" /\ out.L.sticky
                    /\ out.L.key_info = expected
                    /\ out.L.calls = 1 /\ out.L.attempt = 0
              /\ enter(api_keys, stats, FALSE, q, default_max_retries, now)
                    = enter(api_keys, stats, FALSE, 0, default_max_retries, now)
    /\ \A c \in Callers :
          (pc[c] = "wait" /\ sticky[c]) =>
              /\ use_quest_based_rotation /\ calls[c] = 1 /\ attempt[c] = 0
              /\ LET h == receive(api_keys[key_info[c]], Plain("ok"), now)
                      out == after_call([api_keys EXCEPT ![key_info[c]] = h.key_info], stats,
                                        max_retries[c], Locals(c), h, now)
                  IN  out.L.pc = "done" /\ out.L.result = "dict" /\ out.L.calls = 1

\* the quest-specific call of make_request(quest_num = 2) is outstanding on the
\* second of two records while the first one is available
C21_Witness ==
    /\ Len(api_keys) = 2
    /\ pc[1] = "wait" /\ sticky[1] /\ key_info[1] = 2
    /\ AssignedAvailable(api_keys[1], now)
    /\ api_keys[2].total_requests = 1

\* C22: a step of make_request that ends one attempt and starts the next leaves
\* every record but the two used unchanged, changes the record of the attempt
\* that ends only as the outcome of its call does, and counts the call that
\* starts on the record it is made with: no attempt touches a record other than
\* the one it uses.
C22_AttemptChangesOneRecord ==
    [][\A c \in Callers :
          (pc'[c] # pc[c] \/ calls'[c] # calls[c]) =>
              /\ \A i \in DOMAIN api_keys :
                    i # key_info'[c] =>
                        \/ api_keys'[i] = api_keys[i]
                        \/ /\ pc[c] = "wait" /\ i = key_info[c]
                           /\ \E resp \in ResponsesOf("any") :
                                 api_keys'[i] = receive(api_keys[i], resp, now).key_info
              /\ calls'[c] = calls[c] + 1 =>
                    api_keys'[key_info'[c]].total_requests
                        = api_keys[key_info'[c]].total_requests + 1]_vars

\* an attempt with the first of two records was rate limited and the next
\* attempt is under way with the second one
C22_Witness ==
    /\ Len(api_keys) = 2
    /\ pc[1] = "wait" /\ key_info[1] = 2 /\ calls[1] = 2
    /\ api_keys[1].status = "rate_limited" /\ api_keys[1].total_requests = 1
    /\ api_keys[2].total_requests = 1 /\ api_keys[2].status = "active"

\* C23: whatever transient error answers an outstanding call (another HTTP
\* status, a failure of the network, a 200 whose body does not parse into a
\* dict), the record's last_error afterwards describes that failure: it is
\* neither None nor the description of a failure of another kind.
C23_LastErrorDescribesFailure ==
    \A c \in Callers :
        pc[c] = "wait" =>
            \A resp \in TransientResponses :
                LET after == receive(api_keys[key_info[c]], resp, now).key_info.last_error
                IN  /\ resp.kind = "http_error" => after = "HTTP"
                    /\ resp.kind = "network" => after = "Request exception"
                    /\ resp.kind \in {"malformed", "not_dict"} =>
                          after \notin {"None", "HTTP", "Request exception"}

\* C24: a record whose status is ACTIVE has neither a rate_limit_reset nor a
\* cooldown_until, whatever the callers and the provider have done.
C24_ActiveHasNoTimestamp ==
    \A i \in DOMAIN api_keys :
        api_keys[i].status = "active" =>
            (api_keys[i].rate_limit_reset = NONE /\ api_keys[i].cooldown_until = NONE)

\* no record has a rate_limit_reset or a cooldown_until later than t
TimestampsPassed(keys, t) ==
    \A i \in DOMAIN keys :
        /\ keys[i].rate_limit_reset = NONE \/ keys[i].rate_limit_reset <= t
        /\ keys[i].cooldown_until = NONE \/ keys[i].cooldown_until <= t

\* C25: once a make_request has failed, as soon as the clock has passed the
\* rate_limit_reset and the cooldown_until of every record, the next
\* make_request finds a record to call with, and returns the provider's answer
\* when that call succeeds; no reset_key_status is needed.
C25_FailureIsNotPermanent ==
    (pc[1] = "idle" /\ stats.failed_requests >= 1 /\ TimestampsPassed(api_keys, now)) =>
        \A q \in QuestNums :
            LET out == enter(api_keys, stats, use_quest_based_rotation, q,
                             default_max_retries, now)
                i == out.L.key_info
                h == receive(out.keys[i], Plain("ok"), now)
                fin == after_call([out.keys EXCEPT ![i] = h.key_info], out.stats,
                                  default_max_retries, out.L, h, now)
            IN  /\ out.L.pc = "wait"
                /\ fin.L.pc = "done" /\ fin.L.result = "dict"
                /\ fin.stats.successful_requests = stats.successful_requests + 1

\* a make_request failed on a rate limited pool, the reset time passed, and the
\* next make_request has returned the provider's answer
C25_Witness ==
    /\ stats.failed_requests = 1 /\ stats.successful_requests = 1
    /\ pc[1] = "done" /\ result[1] = "dict" /\ calls[1] = 1
    /\ now = rate_limit_cooldown
    /\ \A i \in DOMAIN api_keys : api_keys[i].status = "active"
    /\ \E i \in DOMAIN api_keys : api_keys[i].total_requests = 2

\* C26: no step lowers a record's total_requests or successful_requests; a
\* step raises total_requests by at most one call, and a step that is no step
\* of make_request (reset_key_status, the clock) leaves both as they were.
C26_CountersNeverDecrease ==
    [][\A i \in DOMAIN api_keys :
          /\ api_keys'[i].total_requests >= api_keys[i].total_requests
          /\ api_keys'[i].total_requests <= api_keys[i].total_requests + 1
          /\ api_keys'[i].successful_requests >= api_keys[i].successful_requests
          /\ (pc' = pc /\ calls' = calls) =>
                /\ api_keys'[i].total_requests = api_keys[i].total_requests
                /\ api_keys'[i].successful_requests = api_keys[i].successful_requests]_vars

\* three calls were made with the only record and none succeeded; the
\* make_request has failed, and reset_key_status has made the record ACTIVE again
C26_Witness ==
    /\ Len(api_keys) = 1
    /\ pc[1] = "idle" /\ stats.failed_requests = 1
    /\ api_keys[1].total_requests = 3 /\ api_keys[1].successful_requests = 0
    /\ api_keys[1].status = "active" /\ api_keys[1].last_error = "None"
    /\ api_keys[1].rate_limit_reset = NONE

\* C27: in every state the "available" entry get_status reports for a record
\* is true exactly when _get_next_available_key, called at that moment, could
\* return the record: it is ACTIVE and passes the test of the first tier, or
\* RATE_LIMITED with its rate_limit_reset passed, or COOLING_DOWN with its
\* cooldown_until passed.
C27_AvailableAgreesWithSelection ==
    \A i \in DOMAIN api_keys :
        key_status(api_keys[i], now).available
            <=> i \in (ActiveNow(api_keys, now) \union RateLimitPassed(api_keys, now)
                          \union CooldownPassed(api_keys, now))

\* C28: the step that ends a make_request adds one to exactly one of
\* stats.successful_requests and stats.failed_requests, and no other step
\* changes either; successful_requests never exceeds stats.total_requests and
\* key_switches never exceeds rate_limit_hits.
C28_OneCounterPerRequest ==
    [][/\ \A c \in Callers :
             (pc[c] # "done" /\ pc'[c] = "done") =>
                 \/ /\ stats'.successful_requests = stats.successful_requests + 1
                    /\ stats'.failed_requests = stats.failed_requests
                 \/ /\ stats'.successful_requests = stats.successful_requests
                    /\ stats'.failed_requests = stats.failed_requests + 1
       /\ (\A c \in Callers : ~(pc[c] # "done" /\ pc'[c] = "done")) =>
             /\ stats'.successful_requests = stats.successful_requests
             /\ stats'.failed_requests = stats.failed_requests
       /\ stats'.successful_requests <= stats'.total_requests
       /\ stats'.key_switches <= stats'.rate_limit_hits]_vars

\* C29: while a make_request has found no record to call with, none of its
\* steps changes a record or a counter of stats other than failed_requests;
\* each of its sleeps follows a selection that returned None, and when it ends
\* it has slept max_retries - 1 times (1 + 2 + ... seconds), returns None and
\* has added one to failed_requests.
C29_NoRecordNoCall ==
    [][\A c \in Callers :
          (pc'[c] # pc[c] /\ pc'[c] \in {"loop", "done"} /\ calls'[c] = 0) =>
              /\ api_keys' = api_keys
              /\ stats'.total_requests = stats.total_requests
              /\ stats'.rate_limit_hits = stats.rate_limit_hits
              /\ stats'.key_switches = stats.key_switches
              /\ stats'.successful_requests = stats.successful_requests
              /\ pc'[c] = "loop" =>
                    /\ stats'.failed_requests = stats.failed_requests
                    /\ attempt'[c] = attempt[c] + 1
                    /\ attempt'[c] <= max_retries'[c] - 1
              /\ pc'[c] = "done" =>
                    /\ stats'.failed_requests = stats.failed_requests + 1
                    /\ result'[c] = "None"
                    /\ attempt'[c] = max_retries'[c] - 1
                    /\ slept'[c] = base_retry_delay * (Pow2(max_retries'[c] - 1) - 1)]_vars

\* the first make_request left the pool rate limited and failed; the second one
\* made no call, slept twice and failed
C29_Witness ==
    /\ pc[1] = "done" /\ calls[1] = 0 /\ result[1] = "None"
    /\ attempt[1] = 2 /\ slept[1] = 3
    /\ stats.failed_requests = 2 /\ stats.total_requests = 1
    /\ \A i \in DOMAIN api_keys : api_keys[i].status = "rate_limited"

\* C30: whenever no caller is in the middle of a recovery in
\* _get_next_available_key or of the assignments of _handle_api_response, a
\* RATE_LIMITED record has a rate_limit_reset, a COOLING_DOWN record has a
\* cooldown_until, and no record is ERROR or EXHAUSTED: selection can recover
\* every record once the time has come.
C30_NoRecordExcludedForever ==
    (\A c \in Callers : pc[c] \in {"idle", "select", "post", "wait", "done"}) =>
        \A i \in DOMAIN api_keys :
            /\ api_keys[i].status = "rate_limited" => api_keys[i].rate_limit_reset # NONE
            /\ api_keys[i].status = "cooling_down" => api_keys[i].cooldown_until # NONE
            /\ api_keys[i].status \in {"active", "rate_limited", "cooling_down"}

====
